---- MODULE Spec2Model ----
(***************************************************************************)
(* Model of src/app.py: the CTR experiment server.                         *)
(*                                                                         *)
(*   - the event store (users, sessions, impressions, clicks, searches)    *)
(*     and the HTTP handlers that write to it;                             *)
(*   - assign_variant_and_placement, the HMAC bucketing;                   *)
(*   - the dashboard query and wilson_interval.                            *)
(*                                                                         *)
(* Python floats are IEEE-754 binary64.  wilson_interval is evaluated with *)
(* a binary64 arithmetic written out below (round to nearest, ties to      *)
(* even), because two of its properties are decided by the last bit of the *)
(* result.  TLC's integers are 32 bits wide, so significands are kept as   *)
(* little-endian sequences of 15-bit limbs.                                *)
(***************************************************************************)
EXTENDS Integers, Sequences, FiniteSets

\* ------------------------------------------------------------------------
\* Natural numbers of arbitrary size: little-endian limbs, no high zero limb
\* ------------------------------------------------------------------------
Base == 32768
LimbBits == 15

\* limb i of a, 0 beyond its end
BLimb(a, i) == IF 1 <= i /\ i <= Len(a) THEN a[i] ELSE 0

\* a without its high zero limbs
BNorm(a) ==
  LET used == {i \in 1..Len(a) : a[i] # 0}
  IN  SubSeq(a, 1, IF used = {} THEN 0
                   ELSE CHOOSE i \in used : \A j \in used : j <= i)

\* an int 0 <= n < 2^31
BFromInt(n) ==
  BNorm(<<n % Base, (n \div Base) % Base, n \div (Base * Base)>>)

\* -1, 0, 1 as a <, =, > b: the highest limb that differs decides
BCmp(a, b) ==
  IF Len(a) < Len(b) THEN -1
  ELSE IF Len(a) > Len(b) THEN 1
  ELSE IF a = b THEN 0
  ELSE LET i == CHOOSE i \in 1..Len(a) :
                  a[i] # b[i] /\ \A j \in (i + 1)..Len(a) : a[j] = b[j]
       IN  IF a[i] < b[i] THEN -1 ELSE 1

\* the carry into limb i of a + b: a limb below i overflows and every limb
\* between is full
BCarry(a, b, i) ==
  \E j \in 1..(i - 1) :
    /\ BLimb(a, j) + BLimb(b, j) >= Base
    /\ \A k \in (j + 1)..(i - 1) : BLimb(a, k) + BLimb(b, k) = Base - 1

BAdd(a, b) ==
  BNorm([i \in 1..((IF Len(a) > Len(b) THEN Len(a) ELSE Len(b)) + 1) |->
           (BLimb(a, i) + BLimb(b, i) + (IF BCarry(a, b, i) THEN 1 ELSE 0))
             % Base])

\* the borrow from limb i of a - b
BBorrow(a, b, i) ==
  \E j \in 1..(i - 1) :
    /\ BLimb(a, j) < BLimb(b, j)
    /\ \A k \in (j + 1)..(i - 1) : BLimb(a, k) = BLimb(b, k)

\* a - b for a >= b
BSub(a, b) ==
  BNorm([i \in 1..Len(a) |->
           (Base + a[i] - BLimb(b, i) - (IF BBorrow(a, b, i) THEN 1 ELSE 0))
             % Base])

\* a * 2^n
BShl(a, n) ==
  LET w == n \div LimbBits
      p == 2^(n % LimbBits)
  IN  BNorm([i \in 1..(Len(a) + w + 1) |->
               IF i <= w THEN 0
               ELSE ((BLimb(a, i - w) * p) % Base)
                      + ((BLimb(a, i - w - 1) * p) \div Base)])

\* floor(a / 2^n)
BShr(a, n) ==
  LET w == n \div LimbBits
      p == 2^(n % LimbBits)
  IN  BNorm([i \in 1..(Len(a) - w) |->
               (BLimb(a, i + w) \div p)
                 + ((BLimb(a, i + w + 1) % p) * (Base \div p))])

\* a * d for 0 <= d < Base: the low halves of the limb products plus their
\* high halves one limb up
BMulSmall(a, d) ==
  BAdd(BNorm([i \in 1..Len(a) |-> (a[i] * d) % Base]),
       BNorm([i \in 1..(Len(a) + 1) |-> (BLimb(a, i - 1) * d) \div Base]))

RECURSIVE BMul(_, _)
BMul(a, b) ==
  IF b = <<>> THEN <<>>
  ELSE BAdd(BMulSmall(a, Head(b)), BShl(BMul(a, Tail(b)), LimbBits))

\* the number of bits of a limb
IntBitLen(n) == Cardinality({k \in 0..(LimbBits - 1) : 2^k <= n})

BBitLen(a) ==
  IF a = <<>> THEN 0 ELSE LimbBits * (Len(a) - 1) + IntBitLen(a[Len(a)])

BIsOdd(a) == a # <<>> /\ a[1] % 2 = 1

\* Long division and square root produce one result bit per step; the range
\* of bits is halved at every level, which keeps the evaluation shallow.
\* Here and below an intermediate value that is used more than once is
\* handed on as the argument of a local operator.

\* d.q holds the quotient bits above hi and d.r what is left of the
\* dividend; the result holds the bits down to lo
RECURSIVE BDivBits(_, _, _, _)
BDivBits(d, b, hi, lo) ==
  IF hi = lo
  THEN IF BCmp(BShl(b, hi), d.r) <= 0
       THEN [q |-> BAdd(d.q, BShl(<<1>>, hi)), r |-> BSub(d.r, BShl(b, hi))]
       ELSE d
  ELSE LET mid == (hi + lo + 1) \div 2
           Lower(up) ==
             IF up.r = <<>> THEN up ELSE BDivBits(up, b, mid - 1, lo)
       IN  Lower(BDivBits(d, b, hi, mid))

\* floor(a / b) and the remainder, for b # 0
BDivMod(a, b) ==
  IF BCmp(a, b) < 0 THEN [q |-> <<>>, r |-> a]
  ELSE BDivBits([q |-> <<>>, r |-> a], b, BBitLen(a) - BBitLen(b), 0)

\* s.root holds the bits above hi of the root and s.rem is the radicand
\* less s.root squared; the result holds the bits down to lo
RECURSIVE BSqrtBits(_, _, _)
BSqrtBits(s, hi, lo) ==
  IF hi = lo
  THEN LET Bit(t) ==
             IF BCmp(t, s.rem) <= 0
             THEN [root |-> BAdd(s.root, BShl(<<1>>, hi)),
                   rem  |-> BSub(s.rem, t)]
             ELSE s
       \* (root + 2^hi)^2 - root^2
       IN  Bit(BAdd(BShl(s.root, hi + 1), BShl(<<1>>, 2 * hi)))
  ELSE LET mid == (hi + lo + 1) \div 2
           Lower(up) ==
             IF up.rem = <<>> THEN up ELSE BSqrtBits(up, mid - 1, lo)
       IN  Lower(BSqrtBits(s, hi, mid))

\* floor(sqrt(a)) and the remainder
BSqrt(a) == BSqrtBits([root |-> <<>>, rem |-> a], BBitLen(a) \div 2, 0)

\* ------------------------------------------------------------------------
\* Python float: (-1)^s * m * 2^e, m of exactly Precision bits, or m = <<>>
\* for zero.  Every value wilson_interval meets is a normal number.
\* ------------------------------------------------------------------------
Precision == 53
GuardBits == 56

FZero == [s |-> 0, m |-> <<>>, e |-> 0]

\* the binary64 nearest to M * 2^E; sticky says that bits below M were lost
FRound(s, M, E, sticky) ==
  IF M = <<>> THEN FZero
  ELSE LET L == BBitLen(M)
       IN  IF L <= Precision
           THEN [s |-> s, m |-> BShl(M, Precision - L), e |-> E - (Precision - L)]
           ELSE LET sh == L - Precision
                    Carried(q1) ==
                      IF BBitLen(q1) > Precision
                      THEN [s |-> s, m |-> BShr(q1, 1), e |-> E + sh + 1]
                      ELSE [s |-> s, m |-> q1, e |-> E + sh]
                    Nearest(q, c) ==
                      Carried(IF c > 0 \/ (c = 0 /\ (sticky \/ BIsOdd(q)))
                              THEN BAdd(q, <<1>>) ELSE q)
                    Cut(q) ==
                      Nearest(q, BCmp(BSub(M, BShl(q, sh)), BShl(<<1>>, sh - 1)))
                IN  Cut(BShr(M, sh))

\* float(n) for an int n >= 0
FFromInt(n) == FRound(0, BFromInt(n), 0, FALSE)

FNeg(x) == IF x.m = <<>> THEN x ELSE [x EXCEPT !.s = 1 - x.s]

FAdd(x, y) ==
  IF x.m = <<>> THEN y
  ELSE IF y.m = <<>> THEN x
  ELSE LET e == IF x.e < y.e THEN x.e ELSE y.e
           Signed(X, Y, c) ==
             IF x.s = y.s THEN FRound(x.s, BAdd(X, Y), e, FALSE)
             ELSE IF c = 0 THEN FZero
             ELSE FRound(IF c > 0 THEN x.s ELSE y.s,
                         IF c > 0 THEN BSub(X, Y) ELSE BSub(Y, X), e, FALSE)
           Aligned(X, Y) == Signed(X, Y, BCmp(X, Y))
       IN  Aligned(BShl(x.m, x.e - e), BShl(y.m, y.e - e))

FSub(x, y) == FAdd(x, FNeg(y))

FMul(x, y) ==
  IF x.m = <<>> \/ y.m = <<>> THEN FZero
  ELSE FRound((x.s + y.s) % 2, BMul(x.m, y.m), x.e + y.e, FALSE)

\* x / y for y # 0
FDiv(x, y) ==
  IF x.m = <<>> THEN FZero
  ELSE LET Quotient(d) ==
             FRound((x.s + y.s) % 2, d.q, x.e - y.e - GuardBits, d.r # <<>>)
       IN  Quotient(BDivMod(BShl(x.m, GuardBits), y.m))

\* math.sqrt(x) for x >= 0
FSqrt(x) ==
  IF x.m = <<>> THEN FZero
  ELSE LET sh == IF (x.e - GuardBits) % 2 = 0 THEN GuardBits ELSE GuardBits + 1
           Root(r) == FRound(0, r.root, (x.e - sh) \div 2, r.rem # <<>>)
       IN  Root(BSqrt(BShl(x.m, sh)))

\* -1, 0, 1 as x <, =, > y
FCmp(x, y) ==
  IF x.m = <<>> /\ y.m = <<>> THEN 0
  ELSE IF x.m = <<>> THEN (IF y.s = 0 THEN -1 ELSE 1)
  ELSE IF y.m = <<>> THEN (IF x.s = 0 THEN 1 ELSE -1)
  ELSE IF x.s # y.s THEN (IF x.s = 0 THEN 1 ELSE -1)
  ELSE LET e == IF x.e < y.e THEN x.e ELSE y.e
       IN  (IF x.s = 0 THEN 1 ELSE -1)
             * BCmp(BShl(x.m, x.e - e), BShl(y.m, y.e - e))

FLe(x, y) == FCmp(x, y) <= 0
FLt(x, y) == FCmp(x, y) < 0

\* Python max(a, b) and min(a, b): the first argument unless the second
\* is strictly larger (smaller)
FMax(a, b) == IF FLt(a, b) THEN b ELSE a
FMin(a, b) == IF FLt(b, a) THEN b ELSE a

FOne == FFromInt(1)

\* int(x) for a float x >= 0 below 2^31: truncation
RECURSIVE BToInt(_)
BToInt(a) == IF a = <<>> THEN 0 ELSE Head(a) + Base * BToInt(Tail(a))

FToInt(x) ==
  IF x.m = <<>> THEN 0
  ELSE IF x.e >= 0 THEN BToInt(BShl(x.m, x.e))
  ELSE BToInt(BShr(x.m, -x.e))

\* ------------------------------------------------------------------------
\* stats: wilson_interval
\* ------------------------------------------------------------------------
\* the default argument z=1.96: the literal is the binary64 nearest to
\* 196/100, which is what a correctly rounded division gives
Z == FDiv(FFromInt(196), FFromInt(100))

Returned(phat, lo, hi) == [exc |-> "none", phat |-> phat, lo |-> lo, hi |-> hi]
Raised(e) == [exc |-> e, phat |-> FZero, lo |-> FZero, hi |-> FZero]

\* lines 172-176, for n # 0
wilson_formula(k, n) ==
  LET \* line 176
      Bounds(phat, center, half) ==
        Returned(phat,
                 FMax(FZero, FSub(center, half)),
                 FMin(FOne, FAdd(center, half)))
      \* line 175; rad is the argument of math.sqrt
      Half(phat, denom, center, rad) ==
        IF rad.m # <<>> /\ rad.s = 1
        THEN Raised("ValueError")   \* math.sqrt of a negative number
        ELSE Bounds(phat, center, FDiv(FMul(Z, FSqrt(rad)), denom))
      \* line 174
      Center(phat, denom) ==
        Half(phat, denom,
             FDiv(FAdd(phat, FDiv(FMul(Z, Z), FFromInt(2 * n))), denom),
             FDiv(FAdd(FMul(phat, FSub(FOne, phat)),
                       FDiv(FMul(Z, Z), FFromInt(4 * n))),
                  FFromInt(n)))
  \* lines 172-173
  IN  Center(FDiv(FFromInt(k), FFromInt(n)),
             FAdd(FOne, FDiv(FMul(Z, Z), FFromInt(n))))

\* the guard dropped: k/n divides by zero
wilson_interval_unguarded(k, n) ==
  IF n = 0 THEN Raised("ZeroDivisionError") ELSE wilson_formula(k, n)

wilson_interval(k, n) ==
  IF n = 0 THEN Returned(FZero, FZero, FZero) ELSE wilson_formula(k, n)

\* ------------------------------------------------------------------------
\* Experiment config and assign_variant_and_placement
\* ------------------------------------------------------------------------
VARIANTS   == <<"A", "B", "C">>
PLACEMENTS == <<"P1", "P2", "P3">>

\* Python None, SQL NULL; and a key that the JSON body does not have
NULL    == "<null>"
MISSING == "<missing>"

UserIds    == {"u1", "u2"}
SessionIds == {"s1", "s2"}

\* The first 16 hex digits of hmac.new(SECRET, user_id, sha256).hexdigest()
\* under the default SECRET "changeme", as digit values:
\*   u1 -> a35b2b96 286efe4f,  u2 -> 869abcc5 de7262b0
HmacDigest(user_id) ==
  IF user_id = "u1"
  THEN <<10, 3, 5, 11, 2, 11, 9, 6,   2, 8, 6, 14, 15, 14, 4, 15>>
  ELSE <<8, 6, 9, 10, 11, 12, 12, 5,  13, 14, 7, 2, 6, 2, 11, 0>>

\* int(h, 16) for eight hex digits, four digits at a time
HexToInt(h) == ((h[1] * 16 + h[2]) * 16 + h[3]) * 16 + h[4]
HexToBig(h) ==
  BAdd(BShl(BFromInt(HexToInt(SubSeq(h, 1, 4))), 16),
       BFromInt(HexToInt(SubSeq(h, 5, 8))))

\* float of an int held in limbs
FFromBig(x) == FRound(0, x, 0, FALSE)

\* the divisor 0xFFFFFFFF
BucketDivisor == HexToBig(<<15, 15, 15, 15, 15, 15, 15, 15>>)

\* int(h, 16) / 0xFFFFFFFF
Bucket(h) == FDiv(FFromBig(HexToBig(h)), FFromBig(BucketDivisor))

\* int(bucket * len(choices)) % len(choices), as a 1-based index
BucketIndex(bucket, choices) ==
  (FToInt(FMul(bucket, FFromInt(Len(choices)))) % Len(choices)) + 1

\* lines 68-72, with the two buckets kept next to the returned pair
AssignFromDigest(digest) ==
  LET Cell(bucket1, bucket2) ==
        [variant   |-> VARIANTS[BucketIndex(bucket1, VARIANTS)],
         placement |-> PLACEMENTS[BucketIndex(bucket2, PLACEMENTS)],
         bucket1   |-> bucket1,
         bucket2   |-> bucket2]
  IN  Cell(Bucket(SubSeq(digest, 1, 8)), Bucket(SubSeq(digest, 9, 16)))

assign_variant_and_placement(user_id) ==
  LET a == AssignFromDigest(HmacDigest(user_id))
  IN  [variant |-> a.variant, placement |-> a.placement]

\* assign_variant_and_placement on the user ids of the model, evaluated once
CellOf == [u \in UserIds |-> assign_variant_and_placement(u)]

\* ------------------------------------------------------------------------
\* The store and the last HTTP exchange
\* ------------------------------------------------------------------------
VARIABLES
  users,        \* table users: set of rows, user_id is the primary key
  sessions,     \* table sessions: set of rows, session_id is the primary key
  impressions,  \* table impressions: rows in id order
  clicks,       \* table clicks: rows in id order
  searches,     \* table searches: rows in id order
  last,         \* the request last handled and the response to it
  assigned,     \* history: the first cell each user_id was answered with
  call          \* a direct call of wilson_interval or of the bucketing

vars == <<users, sessions, impressions, clicks, searches, last, assigned, call>>
store == <<users, sessions, impressions, clicks, searches>>

\* the store holds at most MaxRows rows
MaxRows == 3

RowCount ==
  Cardinality(users) + Cardinality(sessions)
    + Len(impressions) + Len(clicks) + Len(searches)

\* request values the model draws from
UserIdInputs    == UserIds \cup {MISSING, ""}
StartSessionIds == {"s1", MISSING, ""}
EventUserIds    == {"u1"}
SearchUserIds   == EventUserIds \cup {MISSING}
VariantInputs   == {MISSING, NULL, "A"}
PlacementInputs == {"P1"}
CreativeInputs  == {"c1"}
UserAgents      == {""}
Referrers       == {""}
Queries         == {"q"}
ClientHosts     == {"127.0.0.1"}
\* int(time.time()*1000), as a tick count
Clock           == {1}

NoCell == [variant |-> NULL, placement |-> NULL]
NoCall == [fn |-> "none"]

Exchange(op, user_id, session_id, status, cell, rows, v_sessions, html) ==
  [op |-> op, user_id |-> user_id, session_id |-> session_id,
   status |-> status, variant |-> cell.variant, placement |-> cell.placement,
   rows |-> rows, v_sessions |-> v_sessions, html |-> html]

\* {"ok": True}, or an HTTPException; the exchange keeps the ids of the
\* request for register_user and start_session only
Ok(op) ==
  Exchange(op, MISSING, MISSING, 200, NoCell, <<>>, 0, <<>>)
Failed(op, user_id, session_id, status) ==
  Exchange(op, user_id, session_id, status, NoCell, <<>>, 0, <<>>)

\* `not x` for a value read with data.get
Falsy(x) == x \in {MISSING, NULL, ""}

Init ==
  /\ users = {}
  /\ sessions = {}
  /\ impressions = <<>>
  /\ clicks = <<>>
  /\ searches = <<>>
  /\ last = Failed("none", MISSING, MISSING, 0)
  /\ assigned = [u \in UserIds |-> NoCell]
  /\ call = NoCall

Remember(user_id, cell) ==
  IF assigned[user_id] = NoCell
  THEN [assigned EXCEPT ![user_id] = cell]
  ELSE assigned

\* register_user handing out variants in order of arrival instead of by hash
register_user_by_arrival(user_id, ua, now) ==
  IF Falsy(user_id)
  THEN /\ last' = Failed("register_user", user_id, MISSING, 400)
       /\ UNCHANGED <<store, assigned, call>>
  ELSE LET cell == [variant   |-> VARIANTS[(Cardinality(users) % Len(VARIANTS)) + 1],
                    placement |-> CellOf[user_id].placement]
           row  == [user_id |-> user_id, ua |-> ua, created_at |-> now]
           dup  == \E r \in users : r.user_id = user_id
       IN  /\ dup \/ RowCount < MaxRows
           /\ users' = IF dup THEN users ELSE users \cup {row}
           /\ last' = Exchange("register_user", user_id, MISSING, 200, cell,
                               <<>>, 0, <<>>)
           /\ assigned' = Remember(user_id, cell)
           /\ UNCHANGED <<sessions, impressions, clicks, searches, call>>

\* POST /api/register_user
register_user(user_id, ua, now) ==
  IF Falsy(user_id)
  THEN /\ last' = Failed("register_user", user_id, MISSING, 400)
       /\ UNCHANGED <<store, assigned, call>>
  ELSE LET cell == CellOf[user_id]
           row  == [user_id |-> user_id, ua |-> ua, created_at |-> now]
           dup  == \E r \in users : r.user_id = user_id
       IN  /\ dup \/ RowCount < MaxRows
           \* INSERT OR IGNORE
           /\ users' = IF dup THEN users ELSE users \cup {row}
           /\ last' = Exchange("register_user", user_id, MISSING, 200, cell,
                               <<>>, 0, <<>>)
           /\ assigned' = Remember(user_id, cell)
           /\ UNCHANGED <<sessions, impressions, clicks, searches, call>>

\* start_session keeping the cell in the sessions row
start_session_persist(user_id, session_id, ref, now) ==
  IF Falsy(user_id) \/ Falsy(session_id)
  THEN /\ last' = Failed("start_session", user_id, session_id, 400)
       /\ UNCHANGED <<store, assigned, call>>
  ELSE LET cell == CellOf[user_id]
           row  == [session_id |-> session_id, user_id |-> user_id,
                    referrer |-> ref, created_at |-> now,
                    variant |-> cell.variant, placement |-> cell.placement]
           dup  == \E r \in sessions : r.session_id = session_id
       IN  /\ dup \/ RowCount < MaxRows
           /\ sessions' = IF dup THEN sessions ELSE sessions \cup {row}
           /\ last' = Exchange("start_session", user_id, session_id, 200, cell,
                               <<>>, 0, <<>>)
           /\ assigned' = Remember(user_id, cell)
           /\ UNCHANGED <<users, impressions, clicks, searches, call>>

\* start_session testing user_id only
start_session_unchecked(user_id, session_id, ref, now) ==
  IF Falsy(user_id)
  THEN /\ last' = Failed("start_session", user_id, session_id, 400)
       /\ UNCHANGED <<store, assigned, call>>
  ELSE LET cell == CellOf[user_id]
           row  == [session_id |-> session_id, user_id |-> user_id,
                    referrer |-> ref, created_at |-> now]
           dup  == \E r \in sessions : r.session_id = session_id
       IN  /\ dup \/ RowCount < MaxRows
           /\ sessions' = IF dup THEN sessions ELSE sessions \cup {row}
           /\ last' = Exchange("start_session", user_id, session_id, 200, cell,
                               <<>>, 0, <<>>)
           /\ assigned' = Remember(user_id, cell)
           /\ UNCHANGED <<users, impressions, clicks, searches, call>>

\* POST /api/start_session
start_session(user_id, session_id, ref, now) ==
  IF Falsy(user_id) \/ Falsy(session_id)
  THEN /\ last' = Failed("start_session", user_id, session_id, 400)
       /\ UNCHANGED <<store, assigned, call>>
  ELSE LET cell == CellOf[user_id]
           row  == [session_id |-> session_id, user_id |-> user_id,
                    referrer |-> ref, created_at |-> now]
           dup  == \E r \in sessions : r.session_id = session_id
       IN  /\ dup \/ RowCount < MaxRows
           \* INSERT OR IGNORE
           /\ sessions' = IF dup THEN sessions ELSE sessions \cup {row}
           /\ last' = Exchange("start_session", user_id, session_id, 200, cell,
                               <<>>, 0, <<>>)
           /\ assigned' = Remember(user_id, cell)
           /\ UNCHANGED <<users, impressions, clicks, searches, call>>

\* len(sorted(MOCK_DOCS, ...)[:8]): MOCK_DOCS has 8 entries
ResultCount == 8

\* api_search keeping only the latest search of each user
api_search_replace(user_id, session_id, q, now) ==
  IF Falsy(user_id) \/ Falsy(session_id)
  THEN /\ last' = Failed("search", MISSING, MISSING, 400)
       /\ UNCHANGED <<store, assigned, call>>
  ELSE /\ RowCount < MaxRows
       /\ searches' = Append(SelectSeq(searches, LAMBDA r : r.user_id # user_id),
            [ts |-> now, user_id |-> user_id, session_id |-> session_id,
             query_text |-> q, result_count |-> ResultCount])
       /\ last' = Ok("search")
       /\ UNCHANGED <<users, sessions, impressions, clicks, assigned, call>>

\* POST /api/search
api_search(user_id, session_id, q, now) ==
  IF Falsy(user_id) \/ Falsy(session_id)
  THEN /\ last' = Failed("search", MISSING, MISSING, 400)
       /\ UNCHANGED <<store, assigned, call>>
  ELSE /\ RowCount < MaxRows
       /\ searches' = Append(searches,
            [ts |-> now, user_id |-> user_id, session_id |-> session_id,
             query_text |-> q, result_count |-> ResultCount])
       /\ last' = Ok("search")
       /\ UNCHANGED <<users, sessions, impressions, clicks, assigned, call>>

\* any(k not in data for k in must); the three numeric fields of /api/imp
\* are always in the bodies the model sends
KeyFields == {"user_id", "session_id", "variant", "placement", "creative_id"}
AnyMissing(data) == \E f \in KeyFields : data[f] = MISSING

\* POST /api/imp; data is the JSON body, MISSING marking an absent key
log_impression(data, ua, ip, now) ==
  IF AnyMissing(data)
  THEN /\ last' = Failed("imp", MISSING, MISSING, 400)
       /\ UNCHANGED <<store, assigned, call>>
  ELSE /\ RowCount < MaxRows
       /\ impressions' = Append(impressions,
            [ts |-> now, user_id |-> data.user_id,
             session_id |-> data.session_id, variant |-> data.variant,
             placement |-> data.placement, creative_id |-> data.creative_id,
             visible_ms |-> data.visible_ms, viewport_w |-> data.viewport_w,
             viewport_h |-> data.viewport_h, ua |-> ua, ip |-> ip])
       /\ last' = Ok("imp")
       /\ UNCHANGED <<users, sessions, clicks, searches, assigned, call>>

\* POST /api/click
log_click(data, ua, ip, now) ==
  IF AnyMissing(data)
  THEN /\ last' = Failed("click", MISSING, MISSING, 400)
       /\ UNCHANGED <<store, assigned, call>>
  ELSE /\ RowCount < MaxRows
       /\ clicks' = Append(clicks,
            [ts |-> now, user_id |-> data.user_id,
             session_id |-> data.session_id, variant |-> data.variant,
             placement |-> data.placement, creative_id |-> data.creative_id,
             ua |-> ua, ip |-> ip])
       /\ last' = Ok("click")
       /\ UNCHANGED <<users, sessions, impressions, searches, assigned, call>>

\* ------------------------------------------------------------------------
\* GET /dashboard
\* ------------------------------------------------------------------------
\* SELECT DISTINCT session_id FROM searches
ValidSessions(srch) == {srch[i].session_id : i \in DOMAIN srch}

\* x IN (SELECT ...): NULL is in nothing
SqlIn(x, S) == x # NULL /\ x \in S

\* a = b in SQL: never true of a NULL
SqlEq(a, b) == a # NULL /\ b # NULL /\ a = b

GroupKey(r) ==
  [variant |-> r.variant, placement |-> r.placement,
   creative_id |-> r.creative_id]

\* the CTEs imp and clk: COUNT(*) of the rows of valid sessions,
\* GROUP BY variant, placement, creative_id (NULLs group together)
GroupCounts(tbl, srch) ==
  LET valid == {i \in DOMAIN tbl : SqlIn(tbl[i].session_id, ValidSessions(srch))}
  IN  [g \in {GroupKey(tbl[i]) : i \in valid} |->
         Cardinality({i \in valid : GroupKey(tbl[i]) = g})]

\* the ON condition of the LEFT JOIN
JoinOn(g, c) ==
  /\ SqlEq(g.variant, c.variant)
  /\ SqlEq(g.placement, c.placement)
  /\ SqlEq(g.creative_id, c.creative_id)

\* COALESCE(clk.clicks, 0) for the imp group g
JoinedClicks(g, clk) ==
  IF \E c \in DOMAIN clk : JoinOn(g, c)
  THEN clk[CHOOSE c \in DOMAIN clk : JoinOn(g, c)]
  ELSE 0

\* ORDER BY: NULL first, then the strings in byte order
Collation == <<NULL, "", "A", "B", "C", "P1", "P2", "P3", "c1", "c2">>
Rank(x) == CHOOSE i \in DOMAIN Collation : Collation[i] = x

KeyLe(g, h) ==
  \/ Rank(g.variant) < Rank(h.variant)
  \/ /\ g.variant = h.variant
     /\ \/ Rank(g.placement) < Rank(h.placement)
        \/ /\ g.placement = h.placement
           /\ Rank(g.creative_id) <= Rank(h.creative_id)

RECURSIVE OrderBy(_)
OrderBy(G) ==
  IF G = {} THEN <<>>
  ELSE LET g == CHOOSE x \in G : \A y \in G : KeyLe(x, y)
       IN  <<g>> \o OrderBy(G \ {g})

\* the first query with JOIN in place of LEFT JOIN
DashboardQuery_inner_join(imps, clks, srch) ==
  LET imp  == GroupCounts(imps, srch)
      clk  == GroupCounts(clks, srch)
      keys == OrderBy({g \in DOMAIN imp : \E c \in DOMAIN clk : JoinOn(g, c)})
  IN  [i \in DOMAIN keys |->
         [variant |-> keys[i].variant, placement |-> keys[i].placement,
          creative_id |-> keys[i].creative_id,
          imps |-> imp[keys[i]], clicks |-> JoinedClicks(keys[i], clk)]]

\* the rows of the first query
DashboardQuery(imps, clks, srch) ==
  LET imp  == GroupCounts(imps, srch)
      clk  == GroupCounts(clks, srch)
      keys == OrderBy(DOMAIN imp)
  IN  [i \in DOMAIN keys |->
         [variant |-> keys[i].variant, placement |-> keys[i].placement,
          creative_id |-> keys[i].creative_id,
          imps |-> imp[keys[i]], clicks |-> JoinedClicks(keys[i], clk)]]

\* SELECT COUNT(DISTINCT session_id) FROM searches
ValidSessionCount(srch) == Cardinality(ValidSessions(srch) \ {NULL})

\* wilson_interval over the counts a store of MaxRows rows can give,
\* evaluated once
WilsonTable ==
  [k \in 0..MaxRows, n \in 0..MaxRows |-> wilson_interval(k, n)]

\* the table rows of the page; the number formatting is left out
Render(rows) ==
  [i \in DOMAIN rows |->
     LET w == WilsonTable[rows[i].clicks, rows[i].imps]
     IN  [variant |-> rows[i].variant, placement |-> rows[i].placement,
          creative_id |-> rows[i].creative_id,
          imps |-> rows[i].imps, clicks |-> rows[i].clicks,
          ctr |-> w.phat, lo |-> w.lo, hi |-> w.hi]]

dashboard ==
  LET rows       == DashboardQuery(impressions, clicks, searches)
      v_sessions == ValidSessionCount(searches)
      raises     == \E i \in DOMAIN rows :
                      WilsonTable[rows[i].clicks, rows[i].imps].exc # "none"
  IN  /\ last' = IF raises
                 THEN Exchange("dashboard", MISSING, MISSING, 500, NoCell,
                               rows, v_sessions, <<>>)
                 ELSE Exchange("dashboard", MISSING, MISSING, 200, NoCell,
                               rows, v_sessions, Render(rows))
      /\ UNCHANGED <<store, assigned, call>>

\* ------------------------------------------------------------------------
\* Specification of the server
\* ------------------------------------------------------------------------
ImpBodies ==
  [user_id : EventUserIds, session_id : SessionIds, variant : VariantInputs,
   placement : PlacementInputs, creative_id : CreativeInputs,
   visible_ms : {1000}, viewport_w : {1280}, viewport_h : {720}]

ClickBodies ==
  [user_id : EventUserIds, session_id : SessionIds, variant : VariantInputs,
   placement : PlacementInputs, creative_id : CreativeInputs]

Next ==
  \/ \E user_id \in UserIdInputs, ua \in UserAgents, now \in Clock :
       register_user(user_id, ua, now)
  \/ \E user_id \in UserIdInputs, session_id \in StartSessionIds,
        ref \in Referrers, now \in Clock :
       start_session(user_id, session_id, ref, now)
  \/ \E user_id \in SearchUserIds, session_id \in SessionIds,
        q \in Queries, now \in Clock :
       api_search(user_id, session_id, q, now)
  \/ \E data \in ImpBodies, ua \in UserAgents, ip \in ClientHosts, now \in Clock :
       log_impression(data, ua, ip, now)
  \/ \E data \in ClickBodies, ua \in UserAgents, ip \in ClientHosts, now \in Clock :
       log_click(data, ua, ip, now)
  \/ dashboard

Spec == Init /\ [][Next]_vars

\* ------------------------------------------------------------------------
\* wilson_interval called directly, on every pair of counts in the bounds
\* ------------------------------------------------------------------------
MaxImpressions == 6
MaxClicks == 8

Pending == [exc |-> "pending", phat |-> FZero, lo |-> FZero, hi |-> FZero]

IdleStore ==
  /\ users = {}
  /\ sessions = {}
  /\ impressions = <<>>
  /\ clicks = <<>>
  /\ searches = <<>>
  /\ last = Failed("none", MISSING, MISSING, 0)
  /\ assigned = [u \in UserIds |-> NoCell]

WilsonInit ==
  /\ IdleStore
  /\ call \in [fn : {"wilson_interval"}, k : 0..MaxClicks,
               n : 0..MaxImpressions, ret : {Pending}]

WilsonCall ==
  /\ call.fn = "wilson_interval"
  /\ call.ret = Pending
  /\ call' = [call EXCEPT !.ret = wilson_interval(call.k, call.n)]
  /\ UNCHANGED <<store, last, assigned>>

WilsonSpec == WilsonInit /\ [][WilsonCall]_vars

\* ------------------------------------------------------------------------
\* The bucketing called directly on digests around the bucket boundaries
\* ------------------------------------------------------------------------
\* 8 hex digits each: 00000000 00000001 55555554 55555555 aaaaaaa9 aaaaaaaa
\* fffffffe ffffffff, and a35b2b96 (user "u1"), 0cbea335.
\* ffffffff 0cbea335 is the digest of the user id "user-2677195184".
BucketSamples ==
  { <<0, 0, 0, 0, 0, 0, 0, 0>>,         <<0, 0, 0, 0, 0, 0, 0, 1>>,
    <<5, 5, 5, 5, 5, 5, 5, 4>>,         <<5, 5, 5, 5, 5, 5, 5, 5>>,
    <<10, 10, 10, 10, 10, 10, 10, 9>>,  <<10, 10, 10, 10, 10, 10, 10, 10>>,
    <<15, 15, 15, 15, 15, 15, 15, 14>>, <<15, 15, 15, 15, 15, 15, 15, 15>>,
    <<10, 3, 5, 11, 2, 11, 9, 6>>,      <<0, 12, 11, 14, 10, 3, 3, 5>> }

SampleDigests == {h1 \o h2 : h1 \in BucketSamples, h2 \in BucketSamples}

PendingCell ==
  [variant |-> NULL, placement |-> NULL, bucket1 |-> FZero, bucket2 |-> FZero]

AssignInit ==
  /\ IdleStore
  /\ call \in [fn : {"assign"}, digest : SampleDigests, ret : {PendingCell}]

AssignCall ==
  /\ call.fn = "assign"
  /\ call.ret = PendingCell
  /\ call' = [call EXCEPT !.ret = AssignFromDigest(call.digest)]
  /\ UNCHANGED <<store, last, assigned>>

AssignSpec == AssignInit /\ [][AssignCall]_vars

\* ------------------------------------------------------------------------
\* Properties
\* ------------------------------------------------------------------------
IsCellResponse ==
  last.op \in {"register_user", "start_session"} /\ last.status = 200

\* C1: every (variant, placement) that register_user or start_session
\* returns for a user_id is the one first returned for that user_id,
\* whatever was done to the store before or in between.
AssignmentDeterministic ==
  IsCellResponse =>
    [variant |-> last.variant, placement |-> last.placement]
      = assigned[last.user_id]

\* start_session answers a user that register_user answered earlier, with
\* an event logged in between
AssignmentRepeated ==
  /\ last.op = "start_session" /\ last.status = 200
  /\ \E r \in users : r.user_id = last.user_id
  /\ \E r \in sessions : r.session_id = last.session_id
  /\ impressions # <<>> \/ clicks # <<>> \/ searches # <<>>

\* C2: for clicks > impressions > 0, wilson_interval returns without
\* raising, with lowerBound and upperBound in [0,1] and pointEstimate the
\* unclamped clicks/impressions.
ToleratesExcessClicks ==
  (call.fn = "wilson_interval" /\ call.ret # Pending
     /\ call.k > call.n /\ call.n > 0) =>
    /\ call.ret.exc = "none"
    /\ FLe(FZero, call.ret.lo) /\ FLe(call.ret.lo, FOne)
    /\ FLe(FZero, call.ret.hi) /\ FLe(call.ret.hi, FOne)
    /\ call.ret.phat = FDiv(FFromInt(call.k), FFromInt(call.n))

\* C3: for 0 <= clicks <= impressions and impressions > 0, wilson_interval
\* returns 0 <= lowerBound <= pointEstimate <= upperBound <= 1.
WilsonBounds ==
  (call.fn = "wilson_interval" /\ call.ret # Pending
     /\ call.k <= call.n /\ call.n > 0) =>
    /\ call.ret.exc = "none"
    /\ FLe(FZero, call.ret.lo)
    /\ FLe(call.ret.lo, call.ret.phat)
    /\ FLe(call.ret.phat, call.ret.hi)
    /\ FLe(call.ret.hi, FOne)

\* the session_id occurs in at least one logged search
HasSearch(session_id) ==
  \E j \in DOMAIN searches : searches[j].session_id = session_id

\* the logged events of group g whose session has a search
ValidEvents(tbl, g) ==
  {i \in DOMAIN tbl : GroupKey(tbl[i]) = g /\ HasSearch(tbl[i].session_id)}

\* C4: the impressions and clicks the dashboard reports for a group are the
\* numbers of logged impression and click events of that group whose
\* session has a logged search.
ValidityFilter ==
  last.op = "dashboard" =>
    \A i \in DOMAIN last.rows :
      /\ last.rows[i].imps
           = Cardinality(ValidEvents(impressions, GroupKey(last.rows[i])))
      /\ last.rows[i].clicks
           = Cardinality(ValidEvents(clicks, GroupKey(last.rows[i])))

\* C5: a group with an impression in a valid session and no click in a
\* valid session is in the dashboard rows, with clicks = 0.
LeftJoinKeepsGroups ==
  last.op = "dashboard" =>
    \A i \in DOMAIN impressions :
      (/\ HasSearch(impressions[i].session_id)
       /\ ValidEvents(clicks, GroupKey(impressions[i])) = {})
      => \E r \in DOMAIN last.rows :
           /\ GroupKey(last.rows[r]) = GroupKey(impressions[i])
           /\ last.rows[r].clicks = 0

\* the dashboard shows a group whose only click is in a session without
\* search
GroupWithoutClicksShown ==
  /\ last.op = "dashboard"
  /\ \E i \in DOMAIN impressions :
       /\ HasSearch(impressions[i].session_id)
       /\ ValidEvents(clicks, GroupKey(impressions[i])) = {}
       /\ \E j \in DOMAIN clicks : GroupKey(clicks[j]) = GroupKey(impressions[i])

\* C6: wilson_interval with impressions = 0 returns exactly (0.0, 0.0, 0.0)
\* for every clicks >= 0.
ZeroImpressions ==
  (call.fn = "wilson_interval" /\ call.ret # Pending /\ call.n = 0) =>
    call.ret = Returned(FZero, FZero, FZero)

\* wilson_interval has returned for impressions = 0 and clicks > 0
ZeroImpressionsCalled ==
  call.fn = "wilson_interval" /\ call.ret # Pending
    /\ call.n = 0 /\ call.k > 0

\* C7: for every 32-bit digest sub-range, bucket1 and bucket2 lie in [0,1).
BucketRange ==
  (call.fn = "assign" /\ call.ret # PendingCell) =>
    /\ FLe(FZero, call.ret.bucket1) /\ FLt(call.ret.bucket1, FOne)
    /\ FLe(FZero, call.ret.bucket2) /\ FLt(call.ret.bucket2, FOne)

UserColumns    == {"user_id", "ua", "created_at"}
SessionColumns == {"session_id", "user_id", "referrer", "created_at"}

\* C8: register_user adds at most one row (user_id, ua, created_at) to users
\* and changes nothing else; start_session adds at most one row to sessions
\* and changes nothing else; no row holds a variant or a placement.
AssignmentNotPersisted ==
  [][(last'.op = "register_user" =>
        (/\ UNCHANGED <<sessions, impressions, clicks, searches>>
         /\ users \subseteq users'
         /\ Cardinality(users' \ users) <= 1
         /\ \A r \in users' : DOMAIN r = UserColumns))
     /\
     (last'.op = "start_session" =>
        (/\ UNCHANGED <<users, impressions, clicks, searches>>
         /\ sessions \subseteq sessions'
         /\ Cardinality(sessions' \ sessions) <= 1
         /\ \A r \in sessions' : DOMAIN r = SessionColumns))]_vars

\* both handlers have answered with a cell and both tables hold a row
CellReturnedRowsStored ==
  /\ IsCellResponse
  /\ users # {}
  /\ sessions # {}

EmptyIdRequest ==
  \/ last.op = "register_user" /\ Falsy(last.user_id)
  \/ last.op = "start_session"
       /\ (Falsy(last.user_id) \/ Falsy(last.session_id))

\* C9: register_user with an empty or missing user_id, and start_session
\* with an empty or missing user_id or session_id, answer 400 with no
\* (variant, placement) and leave every table unchanged.
EmptyIdRejected ==
  [][EmptyIdRequest' =>
       (/\ last'.status = 400
        /\ last'.variant = NULL
        /\ last'.placement = NULL
        /\ UNCHANGED store)]_vars

\* start_session has refused a request without session_id, on a store
\* that holds rows
EmptyIdRefused ==
  /\ last.op = "start_session" /\ last.status = 400
  /\ ~Falsy(last.user_id) /\ Falsy(last.session_id)
  /\ users # {} /\ sessions # {}

IsPrefix(a, b) == Len(a) <= Len(b) /\ SubSeq(b, 1, Len(a)) = a

\* C10: no step removes or changes a row of impressions, clicks or
\* searches; every group of the dashboard query stays, its impressions and
\* clicks do not decrease, and the count of valid sessions does not decrease.
DashboardMonotone ==
  [][LET old == DashboardQuery(impressions, clicks, searches)
         new == DashboardQuery(impressions', clicks', searches')
     IN  /\ IsPrefix(impressions, impressions')
         /\ IsPrefix(clicks, clicks')
         /\ IsPrefix(searches, searches')
         /\ \A i \in DOMAIN old : \E j \in DOMAIN new :
              /\ GroupKey(new[j]) = GroupKey(old[i])
              /\ new[j].imps >= old[i].imps
              /\ new[j].clicks >= old[i].clicks
         /\ ValidSessionCount(searches') >= ValidSessionCount(searches)]_vars

\* the dashboard shows a group whose impressions have grown to two
GroupGrown ==
  /\ last.op = "dashboard"
  /\ \E i \in DOMAIN last.rows : last.rows[i].imps >= 2
  /\ last.v_sessions >= 1

====
